---- MODULE Spec2Model ----
(***************************************************************************)
(* Delivery queue engine of social-media-saver: QueueManager (scheduler),  *)
(* RetryStrategy, ConflictResolver and the IndexedDB job store.            *)
(*                                                                         *)
(* Every `await` of the TypeScript code is a suspension point.  One action *)
(* of the model is one resumption: the awaited store or publisher call     *)
(* takes effect and the synchronous code that follows it runs up to the    *)
(* next `await`.  The continuation of an awaited call runs in the event-   *)
(* loop turn that delivers its answer, so nothing comes between the two.   *)
(***************************************************************************)
EXTENDS Integers, Sequences, FiniteSets, TLC

\* ---------------------------------------------------------------- bounds
MaxJobs == 2
MaxConcurrentChoice == 2
MaxTicks == 2
MaxManualRetries == 1
MaxRetryAllCalls == 1
MaxRestarts == 1
MaxFaults == 1
MaxEnqueueMs == 2
MaxAttemptNumber == 10
MaxClassifiedAttempt == 5
MaxStatusCalls == 1

\* ------------------------------------------------------ program constants
LOW == 0
NORMAL == 1
HIGH == 2
URGENT == 3
ItemMaxRetries == 3
ConfigMaxRetries == 3
BaseDelay == 1000
MaxDelay == 300000
BackoffMultiplier == 2
JitterPermille == 200

\* ------------------------------------------------------------ value sets
PostIds == {"p1"}
DestIds == {"d1"}
JobIds == 1..MaxJobs
EnqueuePriorities == {NORMAL}
None == "none"
Unset == -1
TickMs == 5000
RandomDraws == {500}
\* the clock readings, random id suffixes and priorities of the enqueue calls
\* whose order is examined, and the milliseconds that can pass between
\* generateId() and new Date() in enqueueItem
EnqueueMs == 1..MaxEnqueueMs
IdSuffixes == {0, 1}
ClockLags == {0, 1}
OrderPriorities == {NORMAL, HIGH}
\* draws of Math.random(), in thousandths, for the calls of getDelay that are
\* examined on their own
JitterDraws == {0, 100, 200, 300, 400, 500, 600, 700, 800, 900, 999}

\* Errors a job execution can raise: the publisher's failure results, the
\* two lookups of processItem and a store call that rejects.
PublishErrors == {"http500", "http404"}
Errors == PublishErrors \cup {"postNotFound", "destNotFound", "storeError"}

\* the errors handed to shouldRetry when it is examined on its own: the
\* ones above, publisher failures with the other HTTP statuses, an error of
\* a non-retryable class and a network timeout whose text holds a number
\* what notifySuccess throws when the notification cannot be built or sent
NotifyError == "notifyError"

ClassifiedErrors ==
  Errors \cup {"http401", "http403", "http422", "authError", "timeout4010"}

ErrorName(e) ==
  CASE e = "storeError" -> "AbortError"
    [] e = "authError" -> "AuthenticationError"
    [] e = NotifyError -> "TypeError"
    [] OTHER -> "Error"

ErrorMessage(e) ==
  CASE e = "http500" -> <<"a", "p", "i", " ", "5", "0", "0">>
    [] e = "http404" -> <<"a", "p", "i", " ", "4", "0", "4">>
    [] e = "postNotFound" -> <<"p", "o", "s", "t", " ", "n", "o", "t", " ", "f", "o", "u", "n", "d">>
    [] e = "storeError" -> <<"a", "b", "o", "r", "t", "e", "d">>
    [] e = "http401" -> <<"a", "p", "i", " ", "4", "0", "1">>
    [] e = "http403" -> <<"a", "p", "i", " ", "4", "0", "3">>
    [] e = "http422" -> <<"a", "p", "i", " ", "4", "2", "2">>
    [] e = "authError" -> <<"b", "a", "d", " ", "t", "o", "k", "e", "n">>
    [] e = NotifyError -> <<"u", "n", "d", "e", "f", "i", "n", "e", "d">>
    [] e = "timeout4010" -> <<"T", "i", "m", "e", "o", "u", "t", " ", "4", "0", "1", "0", "m", "s">>
    [] OTHER -> <<"d", "e", "s", "t", " ", "n", "o", "t", " ", "f", "o", "u", "n", "d">>

RemoteIds == {"r42"}
PublishResults ==
  [success : {TRUE}, remoteId : RemoteIds \cup {None}, error : {None}]
    \cup [success : {FALSE}, remoteId : {None}, error : PublishErrors]

VARIABLES
  queue,          \* db.queue: job id -> QueueItem
  posts,          \* db.posts: post id -> SavedPost
  destinations,   \* db.destinations: destination id -> Destination
  nextId,         \* ids handed out by generateId, in creation order
  processing,     \* QueueManager.processing (in-flight job ids)
  maxConcurrent,  \* QueueManager.maxConcurrent
  isPaused,       \* QueueManager.isPaused
  isProcessing,   \* QueueManager.isProcessing, the guard of processQueue
  passes,         \* the processQueue calls that are suspended on their read
  runs,           \* processItem executions, each suspended at run.pc
  retryOp,        \* the retryItem call in progress
  manualRetries,  \* retryItem calls made so far
  now,            \* Date.now()
  ticks,          \* clock advances so far
  calls,          \* history: publish calls per job since enqueue / manual retry
  fails,          \* history: failed publish calls per job since enqueue / manual retry
  okCount,        \* history: successful publish calls per (post, destination)
  guarded,        \* history: jobs not yet executed whose enqueue found a pass in progress
  backgroundSync, \* settings.backgroundSync
  retryAllOp,     \* the retryAllFailed call in progress
  delayCall,      \* the last call of RetryStrategy.getDelay and its answer
  restarts,       \* process restarts so far
  faults,         \* store calls that have failed so far
  answer,         \* the last call of a query operation and what it returned
  statusOp        \* the getStatus call in progress: its position and its counts

vars == <<queue, posts, destinations, nextId, processing, maxConcurrent,
          isPaused, isProcessing, passes, runs, retryOp, manualRetries, now, ticks,
          calls, fails, okCount, guarded, backgroundSync, retryAllOp, delayCall,
          restarts, faults, answer, statusOp>>

storeVars == <<queue, posts, destinations, nextId>>
histVars == <<calls, fails, okCount>>
clockVars == <<now, ticks>>
extVars ==
  <<backgroundSync, retryAllOp, delayCall, restarts, faults, answer, statusOp>>

\* ------------------------------------------------------------ job store
Remove(f, ks) == [k \in (DOMAIN f) \ ks |-> f[k]]

\* Dexie Table.update(key, changes): the fields named in changes are
\* replaced; a missing key is left alone
Update(table, key, changes) ==
  IF key \in DOMAIN table
  THEN [table EXCEPT ![key] =
          [f \in DOMAIN @ |-> IF f \in DOMAIN changes THEN changes[f] ELSE @[f]]]
  ELSE table

UpdateQueueItem(q, id, updates) == Update(q, id, updates)

UpdatePost(ps, id, updates) == Update(ps, id, updates)

UpdateDestination(ds, id, updates) == Update(ds, id, updates)

\* the record enqueueItem adds.  id is the string generateId() returned, as
\* the pair <<Date.now(), random suffix>> that orders it among the primary
\* keys; createdAt is the clock reading taken after it.
NewQueueItem(postId, destinationId, priority, id, createdAt) ==
  [postId |-> postId, destinationId |-> destinationId, status |-> "pending",
   priority |-> priority, retryCount |-> 0, maxRetries |-> ItemMaxRetries,
   lastError |-> None, scheduledFor |-> Unset, skippedReason |-> None,
   existingRemoteId |-> None, id |-> id, createdAt |-> createdAt]

\* mutant of Eligible: scheduledFor is not looked at
EligibleAnyTime(item, t) == TRUE

\* the filter of getPendingItems: scheduledFor is unset or not later than now
Eligible(item, t) == item.scheduledFor = Unset \/ item.scheduledFor <= t

EligiblePending(q, t) ==
  {j \in DOMAIN q : q[j].status = "pending" /\ Eligible(q[j], t)}

\* the order of two primary keys `${Date.now()}-${suffix}`
IdBefore(a, b) == a[1] < b[1] \/ (a[1] = b[1] /\ a[2] <= b[2])

\* the first of a set of jobs in the order getPendingItems returns them:
\* priority descending, and the primary-key order of the index scan within
\* one priority (both sorts are stable)
First(q, S) ==
  CHOOSE j \in S : \A k \in S :
    \/ q[j].priority > q[k].priority
    \/ (q[j].priority = q[k].priority /\ IdBefore(q[j].id, q[k].id))

RECURSIVE Sorted(_, _)
Sorted(q, S) ==
  IF S = {} THEN <<>>
  ELSE LET j == First(q, S) IN <<j>> \o Sorted(q, S \ {j})

Slice(s, n) == SubSeq(s, 1, IF n < Len(s) THEN n ELSE Len(s))

getPendingItems(q, t, limit) ==
  LET items == Sorted(q, EligiblePending(q, t))
  IN IF limit # 0 THEN Slice(items, limit) ELSE items

getFailedItems(q) == {j \in DOMAIN q : q[j].status = "failed"}

\* ------------------------------------------------------- retry strategy
RECURSIVE Pow(_, _)
Pow(b, n) == IF n = 0 THEN 1 ELSE b * Pow(b, n - 1)

Min(a, b) == IF a < b THEN a ELSE b

\* r is the draw of Math.random() in thousandths, 0 <= r < 1000
calculateRetryDelay(attemptNumber, r) ==
  LET exponentialDelay == BaseDelay * Pow(BackoffMultiplier, attemptNumber)
      cappedDelay == Min(exponentialDelay, MaxDelay)
      jitterRange == (cappedDelay * JitterPermille) \div 1000
      jitterTimes1000 == (2 * r - 1000) * jitterRange
  IN (cappedDelay * 1000 + jitterTimes1000) \div 1000

getDelay(attemptNumber, r) == calculateRetryDelay(attemptNumber, r)

RECURSIVE IncludesAt(_, _, _)
IncludesAt(s, sub, i) ==
  IF i + Len(sub) - 1 > Len(s) THEN FALSE
  ELSE IF SubSeq(s, i, i + Len(sub) - 1) = sub THEN TRUE
  ELSE IncludesAt(s, sub, i + 1)

Includes(s, sub) == IncludesAt(s, sub, 1)

NonRetryableErrors ==
  {"AuthenticationError", "AuthorizationError", "ValidationError", "NotFoundError"}

\* String.prototype.toLowerCase on the characters the messages use
LowerChar(c) == IF c = "T" THEN "t" ELSE c

ToLowerCase(s) == [i \in 1..Len(s) |-> LowerChar(s[i])]

shouldRetry(attemptNumber, e) ==
  LET errorMessage == ToLowerCase(ErrorMessage(e))
  IN IF attemptNumber >= ConfigMaxRetries THEN FALSE
     ELSE IF ErrorName(e) \in NonRetryableErrors THEN FALSE
     ELSE IF \/ Includes(errorMessage, <<"4", "0", "1">>)
             \/ Includes(errorMessage, <<"4", "0", "3">>)
             \/ Includes(errorMessage, <<"4", "0", "4">>)
             \/ Includes(errorMessage, <<"4", "2", "2">>)
          THEN FALSE
     ELSE TRUE

\* ---------------------------------------------------- conflict resolver
defaultStrategy == "skip"

\* ConflictResolver.check
check(ps, item) ==
  IF item.postId \notin DOMAIN ps
  THEN [hasConflict |-> FALSE, strategy |-> defaultStrategy, existingRemoteId |-> None]
  ELSE IF /\ ps[item.postId].status = "published"
          /\ ps[item.postId].destination = item.destinationId
          /\ ps[item.postId].remoteId # None
       THEN [hasConflict |-> TRUE, strategy |-> defaultStrategy,
             existingRemoteId |-> ps[item.postId].remoteId]
       ELSE [hasConflict |-> FALSE, strategy |-> defaultStrategy, existingRemoteId |-> None]

\* ConflictResolver.isDuplicateEnqueue
isDuplicateEnqueue(q, t, postId, destinationId) ==
  LET pending == getPendingItems(q, t, 100)
  IN \E i \in 1..Len(pending) :
       q[pending[i]].postId = postId /\ q[pending[i]].destinationId = destinationId

\* -------------------------------------------------------- queue manager
\* mutant of AtCapacity: the bound is tested one slot too late
AtCapacityLate(size, max) == size > max

AtCapacity(size, max) == size >= max

\* mutant of Entered: the guard does not look at isProcessing
EnteredUnguarded(paused, busy) == ~paused

\* the guard at the head of processQueue: whether the call goes on to the
\* body of the pass
Entered(paused, busy) == ~(paused \/ busy)

\* processQueue() called from synchronous code, with n passes suspended:
\* the new value of isProcessing and the new number of suspended passes.
\* A pass that finds no free slot ends in the same call, through finally.
processQueue(paused, busy, n, inflight, max) ==
  IF ~Entered(paused, busy) THEN [isProcessing |-> busy, passes |-> n]
  ELSE IF AtCapacity(Cardinality(inflight), max)
       THEN [isProcessing |-> FALSE, passes |-> n]
  ELSE [isProcessing |-> TRUE, passes |-> n + 1]

\* the guard and the number of passes become what a processQueue call left
Called(pq) ==
  /\ isProcessing' = pq.isProcessing
  /\ passes' = pq.passes

\* the finally clause of processQueue: the pass that was resumed ends
PassEnds ==
  /\ isProcessing' = FALSE
  /\ passes' = passes - 1

\* the loop head of processQueue after one iteration: whether the pass goes
\* on to its next read
LoopAgain(paused, inflight, max) ==
  ~paused /\ ~AtCapacity(Cardinality(inflight), max)

\* no retryItem call in progress
IdleRetry == [pc |-> "idle", itemId |-> 0, postId |-> None]

\* no retryAllFailed call in progress; returned is what the last one returned
IdleRetryAll ==
  [pc |-> "idle", failedItems |-> << >>, i |-> 0, returned |-> Unset, calls |-> 0]

NoDelayCall == [attemptNumber |-> Unset, draw |-> Unset, delay |-> Unset]

\* no query operation has been called
NoAnswer == [op |-> None]

\* no getStatus call is in progress
IdleStatus ==
  [pc |-> "idle", pending |-> 0, processing |-> 0, completed |-> 0, failed |-> 0,
   jobsAtCall |-> 0, calls |-> 0]

\* the state after construction, the settings left open
Constructed ==
  /\ queue = << >>
  /\ posts = [p \in PostIds |->
                [status |-> "pending", destination |-> None,
                 remoteId |-> None, error |-> None]]
  /\ destinations = [d \in DestIds |-> [totalPublished |-> 0]]
  /\ nextId = 1
  /\ processing = {}
  /\ maxConcurrent \in 1..MaxConcurrentChoice
  /\ isPaused = FALSE
  /\ isProcessing = FALSE
  /\ passes = 0
  /\ runs = {}
  /\ retryOp = IdleRetry
  /\ manualRetries = 0
  /\ now = 0
  /\ ticks = 0
  /\ calls = [j \in JobIds |-> 0]
  /\ fails = [j \in JobIds |-> 0]
  /\ okCount = [pd \in PostIds \X DestIds |-> 0]
  /\ guarded = {}
  /\ retryAllOp = IdleRetryAll
  /\ delayCall = NoDelayCall
  /\ restarts = 0
  /\ faults = 0
  /\ answer = NoAnswer
  /\ statusOp = IdleStatus

\* DEFAULT_SETTINGS: background sync is on
Init == Constructed /\ backgroundSync = TRUE

\* QueueManager.enqueue: the store adds the job, then a pass is triggered.
\* id and createdAt are what generateId() and new Date() answered.
EnqueueItem(postId, destinationId, priority, id, createdAt) ==
  /\ nextId <= MaxJobs
  /\ \A j \in DOMAIN queue : queue[j].id # id
  /\ queue' = queue @@ (nextId :> NewQueueItem(postId, destinationId, priority, id, createdAt))
  /\ nextId' = nextId + 1
  /\ Called(processQueue(isPaused, isProcessing, passes, processing, maxConcurrent))
  /\ guarded' = IF isProcessing /\ ~isPaused THEN guarded \cup {nextId} ELSE guarded
  /\ UNCHANGED <<posts, destinations, processing, maxConcurrent, extVars, isPaused, runs,
                 retryOp, manualRetries, now, ticks, calls, fails, okCount>>

\* enqueue with every call in a millisecond of its own: the n-th call reads
\* the clock at n
Enqueue(postId, destinationId, priority) ==
  EnqueueItem(postId, destinationId, priority, <<nextId, 0>>, nextId)

\* the execution processItem(item) as started by processQueue: item is the
\* snapshot the pass read.  conflict is history only: what
\* ConflictResolver.check would answer for the item at that moment; no
\* action reads it, as processItem never calls the resolver.
NewRun(id, item, conflict) ==
  [id |-> id, pc |-> "markProcessing", postId |-> item.postId,
   destinationId |-> item.destinationId, retryCount |-> item.retryCount,
   maxRetries |-> item.maxRetries, post |-> FALSE, destStats |-> Unset,
   remoteId |-> None, error |-> None, scheduledFor |-> Unset,
   conflict |-> conflict]

\* mutant of AlreadyInFlight: the selected job is dispatched without a look
\* at the jobs in flight
AlreadyInFlightNever(inflight, id) == FALSE

\* this.processing.has(item.id)
AlreadyInFlight(inflight, id) == id \in inflight

\* QueueManager.processQueue, resumed with the result of getPendingItems(1)
PassRead ==
  /\ passes > 0
  /\ LET items == getPendingItems(queue, now, 1)
     IN IF Len(items) = 0
        THEN /\ PassEnds
             /\ UNCHANGED <<processing, runs>>
        ELSE LET id == items[1]
                 item == queue[id]
             IN IF AlreadyInFlight(processing, id)
                THEN /\ IF LoopAgain(isPaused, processing, maxConcurrent)
                        THEN UNCHANGED <<isProcessing, passes>>
                        ELSE PassEnds
                     /\ UNCHANGED <<processing, runs>>
                ELSE /\ processing' = processing \cup {id}
                     /\ runs' = runs \cup {NewRun(id, item, check(posts, item).hasConflict)}
                     /\ IF LoopAgain(isPaused, processing', maxConcurrent)
                        THEN UNCHANGED <<isProcessing, passes>>
                        ELSE PassEnds
  /\ UNCHANGED <<storeVars, maxConcurrent, extVars, isPaused, retryOp, manualRetries,
                 clockVars, histVars, guarded>>

\* the .finally callback of processQueue, after processing.delete: a pass
\* is triggered unless paused
\* mutant of ContinueProcessing: a released slot triggers no pass
ContinueProcessingNever(paused, busy, n, inflight, max) ==
  [isProcessing |-> busy, passes |-> n]

ContinueProcessing(paused, busy, n, inflight, max) ==
  IF ~paused THEN processQueue(paused, busy, n, inflight, max)
  ELSE [isProcessing |-> busy, passes |-> n]

\* the execution r ends: its slot is released
Release(r) ==
  /\ processing' = processing \ {r.id}
  /\ runs' = runs \ {r}
  /\ Called(ContinueProcessing(isPaused, isProcessing, passes, processing', maxConcurrent))
  /\ guarded' = guarded \ {r.id}

Step(r, r2) ==
  /\ runs' = (runs \ {r}) \cup {r2}
  /\ UNCHANGED <<processing, isProcessing, passes, guarded>>

\* mutant of RetryBudgetSpent: one more retry than the budget
RetryBudgetSpentLate(newRetryCount, maxRetries) == newRetryCount > maxRetries

RetryBudgetSpent(newRetryCount, maxRetries) == newRetryCount >= maxRetries

\* mutant of handleError: the budget is tested on the count before the
\* increment
handleErrorStaleCount(r, e, rd) ==
  LET newRetryCount == r.retryCount + 1
  IN IF RetryBudgetSpent(r.retryCount, r.maxRetries)
     THEN [r EXCEPT !.pc = "writeFailed", !.error = e, !.retryCount = newRetryCount]
     ELSE [r EXCEPT !.pc = "writeRetry", !.error = e, !.retryCount = newRetryCount,
                    !.scheduledFor = now + getDelay(newRetryCount, rd)]

\* QueueManager.handleError up to its first store write: the run as it
\* waits for that write.  rd is the jitter draw of getDelay.
handleError(r, e, rd) ==
  LET newRetryCount == r.retryCount + 1
  IN IF RetryBudgetSpent(newRetryCount, r.maxRetries)
     THEN [r EXCEPT !.pc = "writeFailed", !.error = e, !.retryCount = newRetryCount]
     ELSE [r EXCEPT !.pc = "writeRetry", !.error = e, !.retryCount = newRetryCount,
                    !.scheduledFor = now + getDelay(newRetryCount, rd)]

\* processItem: updateQueueItem(status 'processing') has been applied
MarkProcessing(r) ==
  /\ r.pc = "markProcessing"
  /\ queue' = UpdateQueueItem(queue, r.id, [status |-> "processing"])
  /\ Step(r, [r EXCEPT !.pc = "getPost"])
  /\ UNCHANGED <<posts, destinations, nextId, maxConcurrent, extVars, isPaused, retryOp,
                 manualRetries, clockVars, histVars>>

\* processItem: getPost has answered
GetPost(r) ==
  /\ r.pc = "getPost"
  /\ Step(r, [r EXCEPT !.pc = "getDestination", !.post = (r.postId \in DOMAIN posts)])
  /\ UNCHANGED <<storeVars, maxConcurrent, extVars, isPaused, retryOp, manualRetries,
                 clockVars, histVars>>

\* processItem: getDestination has answered; a missing post or destination
\* is thrown into handleError, otherwise the publisher is called
GetDestination(r, rd) ==
  /\ r.pc = "getDestination"
  /\ LET found == r.destinationId \in DOMAIN destinations
     IN IF ~r.post
        THEN Step(r, handleError(r, "postNotFound", rd))
        ELSE IF ~found
        THEN Step(r, handleError(r, "destNotFound", rd))
        ELSE Step(r, [r EXCEPT !.pc = "publish",
                               !.destStats = destinations[r.destinationId].totalPublished])
  /\ UNCHANGED <<storeVars, maxConcurrent, extVars, isPaused, retryOp, manualRetries,
                 clockVars, histVars>>

\* processItem: publisher.publish has answered with res
Publish(r, res, rd) ==
  /\ r.pc = "publish"
  /\ calls' = [calls EXCEPT ![r.id] = @ + 1]
  /\ IF res.success
     THEN /\ Step(r, [r EXCEPT !.pc = "updatePost", !.remoteId = res.remoteId])
          /\ okCount' = [okCount EXCEPT ![<<r.postId, r.destinationId>>] = Min(@ + 1, 2)]
          /\ fails' = fails
     ELSE /\ Step(r, handleError(r, res.error, rd))
          /\ fails' = [fails EXCEPT ![r.id] = @ + 1]
          /\ okCount' = okCount
  /\ UNCHANGED <<storeVars, maxConcurrent, extVars, isPaused, retryOp, manualRetries,
                 clockVars>>

\* processItem: updatePost(status 'published') has been applied
UpdatePostPublished(r) ==
  /\ r.pc = "updatePost"
  /\ posts' = UpdatePost(posts, r.postId,
                [status |-> "published", remoteId |-> r.remoteId, destination |-> r.destinationId])
  /\ Step(r, [r EXCEPT !.pc = "updateCompleted"])
  /\ UNCHANGED <<queue, destinations, nextId, maxConcurrent, extVars, isPaused, retryOp,
                 manualRetries, clockVars, histVars>>

\* processItem: updateQueueItem(status 'completed') has been applied
UpdateCompleted(r) ==
  /\ r.pc = "updateCompleted"
  /\ queue' = UpdateQueueItem(queue, r.id, [status |-> "completed"])
  /\ Step(r, [r EXCEPT !.pc = "updateDestination"])
  /\ UNCHANGED <<posts, destinations, nextId, maxConcurrent, extVars, isPaused, retryOp,
                 manualRetries, clockVars, histVars>>

\* processItem: updateDestination(stats) has been applied; the success
\* notification is sent and the execution ends
UpdateDestinationStats(r) ==
  /\ r.pc = "updateDestination"
  /\ destinations' = UpdateDestination(destinations, r.destinationId,
                       [totalPublished |-> r.destStats + 1])
  /\ Release(r)
  /\ UNCHANGED <<queue, posts, nextId, maxConcurrent, extVars, isPaused, retryOp,
                 manualRetries, clockVars, histVars>>

\* handleError, final failure: updateQueueItem(status 'failed') has been applied
WriteFailed(r) ==
  /\ r.pc = "writeFailed"
  /\ queue' = UpdateQueueItem(queue, r.id,
                [status |-> "failed", lastError |-> r.error, retryCount |-> r.retryCount])
  /\ Step(r, [r EXCEPT !.pc = "updatePostFailed"])
  /\ UNCHANGED <<posts, destinations, nextId, maxConcurrent, extVars, isPaused, retryOp,
                 manualRetries, clockVars, histVars>>

\* handleError, final failure: updatePost(status 'failed') has been applied;
\* the failure notification is sent and the execution ends
UpdatePostFailed(r) ==
  /\ r.pc = "updatePostFailed"
  /\ posts' = UpdatePost(posts, r.postId,
                [status |-> "failed", error |-> r.error])
  /\ Release(r)
  /\ UNCHANGED <<queue, destinations, nextId, maxConcurrent, extVars, isPaused, retryOp,
                 manualRetries, clockVars, histVars>>

\* handleError, retry: updateQueueItem(status 'pending', scheduledFor) has
\* been applied and the execution ends
WriteRetry(r) ==
  /\ r.pc = "writeRetry"
  /\ queue' = UpdateQueueItem(queue, r.id,
                [status |-> "pending", retryCount |-> r.retryCount, lastError |-> r.error, scheduledFor |-> r.scheduledFor])
  /\ Release(r)
  /\ UNCHANGED <<posts, destinations, nextId, maxConcurrent, extVars, isPaused, retryOp,
                 manualRetries, clockVars, histVars>>


\* mutant of RetryRejected: only a missing item is turned away
RetryRejectedIfMissing(q, itemId) == itemId \notin DOMAIN q

\* retryItem's test of the item it read
RetryRejected(q, itemId) == itemId \notin DOMAIN q \/ q[itemId].status # "failed"

\* QueueManager.retryItem: getQueueItem has answered; an item that is
\* missing or not failed makes the call throw
RetryItemRead(itemId) ==
  /\ retryOp.pc = "idle"
  /\ manualRetries < MaxManualRetries
  /\ manualRetries' = manualRetries + 1
  /\ IF RetryRejected(queue, itemId)
     THEN retryOp' = IdleRetry
     ELSE retryOp' = [pc |-> "updateItem", itemId |-> itemId,
                      postId |-> queue[itemId].postId]
  /\ UNCHANGED <<storeVars, processing, maxConcurrent, extVars, isPaused, isProcessing, passes,
                 runs, clockVars, histVars, guarded>>

\* retryItem: updateQueueItem(status 'pending', retryCount 0) has been applied
RetryItemWrite ==
  /\ retryOp.pc = "updateItem"
  /\ queue' = UpdateQueueItem(queue, retryOp.itemId,
                [status |-> "pending", retryCount |-> 0, lastError |-> None, scheduledFor |-> Unset])
  /\ retryOp' = [retryOp EXCEPT !.pc = "updatePost"]
  /\ calls' = [calls EXCEPT ![retryOp.itemId] = 0]
  /\ fails' = [fails EXCEPT ![retryOp.itemId] = 0]
  /\ UNCHANGED <<posts, destinations, nextId, processing, maxConcurrent, extVars, isPaused,
                 isProcessing, passes, runs, manualRetries, clockVars, okCount, guarded>>

\* retryItem: updatePost(status 'pending') has been applied, a pass is triggered
RetryItemPost ==
  /\ retryOp.pc = "updatePost"
  /\ posts' = UpdatePost(posts, retryOp.postId,
                [status |-> "pending", error |-> None])
  /\ retryOp' = IdleRetry
  /\ Called(processQueue(isPaused, isProcessing, passes, processing, maxConcurrent))
  /\ UNCHANGED <<queue, destinations, nextId, processing, maxConcurrent, extVars, isPaused,
                 runs, manualRetries, clockVars, histVars, guarded>>

\* the items of getFailedItems, in the primary-key order of the index scan
RECURSIVE ById(_, _)
ById(q, S) ==
  IF S = {} THEN << >>
  ELSE LET j == CHOOSE j \in S : \A k \in S : IdBefore(q[j].id, q[k].id)
       IN <<[id |-> j, postId |-> q[j].postId]>> \o ById(q, S \ {j})

\* retryAllFailed after its loop: a pass is triggered and the count returned
RetryAllReturns(op) ==
  [IdleRetryAll EXCEPT !.returned = Len(op.failedItems), !.calls = op.calls]

\* QueueManager.retryAllFailed: getFailedItems has answered
RetryAllRead ==
  /\ retryAllOp.pc = "idle"
  /\ retryAllOp.calls < MaxRetryAllCalls
  /\ LET op == [retryAllOp EXCEPT !.failedItems = ById(queue, getFailedItems(queue)),
                                  !.calls = @ + 1, !.returned = Unset]
     IN IF Len(op.failedItems) = 0
        THEN /\ retryAllOp' = RetryAllReturns(op)
             /\ Called(processQueue(isPaused, isProcessing, passes, processing, maxConcurrent))
        ELSE /\ retryAllOp' = [op EXCEPT !.pc = "updateItem", !.i = 1]
             /\ UNCHANGED <<isProcessing, passes>>
  /\ UNCHANGED <<storeVars, processing, maxConcurrent, isPaused, runs, retryOp,
                 manualRetries, clockVars, histVars, guarded, backgroundSync,
                 delayCall, answer, statusOp, restarts, faults>>

\* retryAllFailed: updateQueueItem(status 'pending', retryCount 0) has been
\* applied to the item of this iteration
RetryAllWrite ==
  /\ retryAllOp.pc = "updateItem"
  /\ LET item == retryAllOp.failedItems[retryAllOp.i]
     IN /\ queue' = UpdateQueueItem(queue, item.id,
                       [status |-> "pending", retryCount |-> 0, lastError |-> None, scheduledFor |-> Unset])
        /\ calls' = [calls EXCEPT ![item.id] = 0]
        /\ fails' = [fails EXCEPT ![item.id] = 0]
  /\ retryAllOp' = [retryAllOp EXCEPT !.pc = "updatePost"]
  /\ UNCHANGED <<posts, destinations, nextId, processing, maxConcurrent, isPaused,
                 isProcessing, passes, runs, retryOp, manualRetries, clockVars, okCount,
                 guarded, backgroundSync, delayCall, answer, statusOp, restarts, faults>>

\* retryAllFailed: updatePost(status 'pending') has been applied for the
\* item of this iteration; after the last item the call returns
RetryAllPost ==
  /\ retryAllOp.pc = "updatePost"
  /\ posts' = UpdatePost(posts, retryAllOp.failedItems[retryAllOp.i].postId,
                [status |-> "pending", error |-> None])
  /\ IF retryAllOp.i = Len(retryAllOp.failedItems)
     THEN /\ retryAllOp' = RetryAllReturns(retryAllOp)
          /\ Called(processQueue(isPaused, isProcessing, passes, processing, maxConcurrent))
     ELSE /\ retryAllOp' = [retryAllOp EXCEPT !.pc = "updateItem", !.i = @ + 1]
          /\ UNCHANGED <<isProcessing, passes>>
  /\ UNCHANGED <<queue, destinations, nextId, processing, maxConcurrent, isPaused,
                 runs, retryOp, manualRetries, clockVars, histVars, guarded,
                 backgroundSync, delayCall, answer, statusOp, restarts, faults>>

\* QueueManager.pause
Pause ==
  /\ isPaused' = TRUE
  /\ UNCHANGED <<storeVars, processing, maxConcurrent, extVars, isProcessing, passes, runs, retryOp,
                 manualRetries, clockVars, histVars, guarded>>

\* QueueManager.resume
Resume ==
  /\ isPaused' = FALSE
  /\ Called(processQueue(FALSE, isProcessing, passes, processing, maxConcurrent))
  /\ UNCHANGED <<storeVars, processing, maxConcurrent, extVars, runs, retryOp,
                 manualRetries, clockVars, histVars, guarded>>

\* IndexedDBStorage.deletePost: the post and every job of it
DeletePost(postId) ==
  /\ postId \in DOMAIN posts
  /\ posts' = Remove(posts, {postId})
  /\ queue' = Remove(queue, {j \in DOMAIN queue : queue[j].postId = postId})
  /\ UNCHANGED <<destinations, nextId, processing, maxConcurrent, extVars, isPaused,
                 isProcessing, passes, runs, retryOp, manualRetries, clockVars, histVars, guarded>>

\* IndexedDBStorage.deleteDestination
DeleteDestination(destinationId) ==
  /\ destinationId \in DOMAIN destinations
  /\ destinations' = Remove(destinations, {destinationId})
  /\ posts' = [p \in DOMAIN posts |->
                 IF posts[p].destination = destinationId
                 THEN [posts[p] EXCEPT !.destination = None] ELSE posts[p]]
  /\ UNCHANGED <<queue, nextId, processing, maxConcurrent, extVars, isPaused, isProcessing, passes,
                 runs, retryOp, manualRetries, clockVars, histVars, guarded>>

\* the clock advances
Tick ==
  /\ ticks < MaxTicks
  /\ ticks' = ticks + 1
  /\ now' = now + TickMs
  /\ UNCHANGED <<storeVars, processing, maxConcurrent, extVars, isPaused, isProcessing, passes,
                 runs, retryOp, manualRetries, histVars, guarded>>

\* one resumption of the execution r
RunResumes(r) ==
    \/ MarkProcessing(r)
    \/ GetPost(r)
    \/ \E rd \in RandomDraws : GetDestination(r, rd)
    \/ \E res \in PublishResults, rd \in RandomDraws : Publish(r, res, rd)
    \/ UpdatePostPublished(r)
    \/ UpdateCompleted(r)
    \/ UpdateDestinationStats(r)
    \/ WriteFailed(r)
    \/ UpdatePostFailed(r)
    \/ WriteRetry(r)

RunStepOf(j) == \E r \in runs : r.id = j /\ RunResumes(r)

Next ==
  \/ \E p \in PostIds, d \in DestIds, pr \in EnqueuePriorities : Enqueue(p, d, pr)
  \/ PassRead
  \/ \E r \in runs : MarkProcessing(r)
  \/ \E r \in runs : GetPost(r)
  \/ \E r \in runs, rd \in RandomDraws : GetDestination(r, rd)
  \/ \E r \in runs, res \in PublishResults, rd \in RandomDraws : Publish(r, res, rd)
  \/ \E r \in runs : UpdatePostPublished(r)
  \/ \E r \in runs : UpdateCompleted(r)
  \/ \E r \in runs : UpdateDestinationStats(r)
  \/ \E r \in runs : WriteFailed(r)
  \/ \E r \in runs : UpdatePostFailed(r)
  \/ \E r \in runs : WriteRetry(r)
  \/ \E j \in JobIds : RetryItemRead(j)
  \/ RetryItemWrite
  \/ RetryItemPost
  \/ Pause
  \/ Resume
  \/ \E p \in PostIds : DeletePost(p)
  \/ \E d \in DestIds : DeleteDestination(d)
  \/ Tick

Spec == Init /\ [][Next]_vars

\* The queue with every store and publisher call returning: nothing is
\* deleted, and a call that is awaited is answered.  Enqueue, retryItem,
\* pause, resume and the clock stay free to happen or not.
LiveNext ==
  \/ \E p \in PostIds, d \in DestIds, pr \in EnqueuePriorities : Enqueue(p, d, pr)
  \/ PassRead
  \/ \E j \in JobIds : RunStepOf(j)
  \/ \E j \in JobIds : RetryItemRead(j)
  \/ RetryItemWrite
  \/ RetryItemPost
  \/ Pause
  \/ Resume
  \/ Tick

LiveSpec ==
  /\ Init
  /\ [][LiveNext]_vars
  /\ WF_vars(PassRead)
  /\ \A j \in JobIds : WF_vars(RunStepOf(j))
  /\ WF_vars(RetryItemWrite)
  /\ WF_vars(RetryItemPost)

\* enqueue at clock reading ms: generateId() draws suffix, and new Date()
\* reads the clock lag milliseconds later.  The clock does not run backwards.
EnqueueAt(postId, destinationId, priority, ms, suffix, lag) ==
  /\ \A j \in DOMAIN queue : queue[j].createdAt <= ms
  /\ EnqueueItem(postId, destinationId, priority, <<ms, suffix>>, ms + lag)

\* The queue with enqueue calls of several priorities that can fall into
\* one millisecond.
OrderNext ==
  \/ \E p \in PostIds, d \in DestIds, pr \in OrderPriorities,
        ms \in EnqueueMs, suffix \in IdSuffixes, lag \in ClockLags :
          EnqueueAt(p, d, pr, ms, suffix, lag)
  \/ PassRead
  \/ \E r \in runs : MarkProcessing(r)
  \/ \E r \in runs : GetPost(r)
  \/ \E r \in runs, rd \in RandomDraws : GetDestination(r, rd)
  \/ \E r \in runs, res \in PublishResults, rd \in RandomDraws : Publish(r, res, rd)
  \/ \E r \in runs : UpdatePostPublished(r)
  \/ \E r \in runs : UpdateCompleted(r)
  \/ \E r \in runs : UpdateDestinationStats(r)
  \/ \E r \in runs : WriteRetry(r)
  \/ Pause
  \/ Resume

OrderSpec == Init /\ [][OrderNext]_vars

\* RetryStrategy.getDelay(attemptNumber), called on its own; draw is what
\* Math.random() answers
GetDelay(attemptNumber, draw) ==
  /\ delayCall' = [attemptNumber |-> attemptNumber, draw |-> draw,
                   delay |-> getDelay(attemptNumber, draw)]
  /\ UNCHANGED <<storeVars, processing, maxConcurrent, isPaused, isProcessing, passes, runs,
                 retryOp, manualRetries, clockVars, histVars, guarded,
                 backgroundSync, retryAllOp, restarts, faults, answer, statusOp>>

\* The retry strategy as a library: any attempt number, any jitter draw.
DelayNext ==
  \E attemptNumber \in 0..MaxAttemptNumber, draw \in JitterDraws :
    GetDelay(attemptNumber, draw)

DelaySpec == Init /\ [][DelayNext]_vars

\* RetryStrategy.shouldRetry(attemptNumber, error), called on its own
ShouldRetryCall(attemptNumber, e) ==
  /\ answer' = [op |-> "shouldRetry", attemptNumber |-> attemptNumber, error |-> e,
                result |-> shouldRetry(attemptNumber, e)]
  /\ UNCHANGED <<storeVars, processing, maxConcurrent, isPaused, isProcessing, passes, runs,
                 retryOp, manualRetries, clockVars, histVars, guarded,
                 backgroundSync, retryAllOp, delayCall, restarts, faults, statusOp>>

\* The retry classification as a library: any attempt number, any error.
ClassifyNext ==
  \E attemptNumber \in 0..MaxClassifiedAttempt, e \in ClassifiedErrors :
    ShouldRetryCall(attemptNumber, e)

ClassifySpec == Init /\ [][ClassifyNext]_vars

\* db.queue.where('status').equals(status).count()
Count(q, status) == Cardinality({j \in DOMAIN q : q[j].status = status})

\* Math.round((completed / total) * 100)
RoundedPercent(completed, total) == (200 * completed + total) \div (2 * total)

\* what getQueueStatus builds from its counts, with the two fields that
\* getStatus overrides
QueueStatus(op, paused, inflight) ==
  LET total == op.pending + op.processing + op.completed + op.failed
  IN [op |-> "getStatus", pending |-> op.pending, processing |-> op.processing,
      completed |-> op.completed, failed |-> op.failed, total |-> total,
      progress |-> IF total > 0 THEN RoundedPercent(op.completed, total) ELSE 0,
      isPaused |-> paused, isProcessing |-> inflight # {},
      jobsAtCall |-> op.jobsAtCall]

\* the unchanged variables of a step of getStatus
StatusFrame ==
  UNCHANGED <<storeVars, processing, maxConcurrent, isPaused, isProcessing, passes, runs,
              retryOp, manualRetries, clockVars, histVars, guarded,
              backgroundSync, retryAllOp, delayCall, restarts, faults>>

\* QueueManager.getStatus is called: getQueueStatus asks for the first count
GetStatusCall ==
  /\ statusOp.pc = "idle"
  /\ statusOp.calls < MaxStatusCalls
  /\ statusOp' = [IdleStatus EXCEPT !.pc = "pending", !.calls = statusOp.calls + 1,
                                    !.jobsAtCall = Cardinality(DOMAIN queue)]
  /\ UNCHANGED answer
  /\ StatusFrame

\* getQueueStatus: the count of pending jobs has answered
CountPending ==
  /\ statusOp.pc = "pending"
  /\ statusOp' = [statusOp EXCEPT !.pc = "processing",
                                  !.pending = Count(queue, "pending")]
  /\ UNCHANGED answer
  /\ StatusFrame

\* getQueueStatus: the count of processing jobs has answered
CountProcessing ==
  /\ statusOp.pc = "processing"
  /\ statusOp' = [statusOp EXCEPT !.pc = "completed",
                                  !.processing = Count(queue, "processing")]
  /\ UNCHANGED answer
  /\ StatusFrame

\* getQueueStatus: the count of completed jobs has answered
CountCompleted ==
  /\ statusOp.pc = "completed"
  /\ statusOp' = [statusOp EXCEPT !.pc = "failed",
                                  !.completed = Count(queue, "completed")]
  /\ UNCHANGED answer
  /\ StatusFrame

\* getQueueStatus: the count of failed jobs has answered
CountFailed ==
  /\ statusOp.pc = "failed"
  /\ statusOp' = [statusOp EXCEPT !.pc = "lastCompleted",
                                  !.failed = Count(queue, "failed")]
  /\ UNCHANGED answer
  /\ StatusFrame

\* getQueueStatus: the read of the completed jobs has answered; the status
\* is built and getStatus returns it with its own isPaused and isProcessing
GetStatusReturn ==
  /\ statusOp.pc = "lastCompleted"
  /\ answer' = QueueStatus(statusOp, isPaused, processing)
  /\ statusOp' = [IdleStatus EXCEPT !.calls = statusOp.calls]
  /\ StatusFrame

\* The queue at work while a status query is in progress; the clock stands
\* still, so a job that was rescheduled stays pending.
StatusNext ==
  \/ \E p \in PostIds, d \in DestIds, pr \in EnqueuePriorities : Enqueue(p, d, pr)
  \/ PassRead
  \/ \E j \in JobIds : RunStepOf(j)
  \/ GetStatusCall
  \/ CountPending
  \/ CountProcessing
  \/ CountCompleted
  \/ CountFailed
  \/ GetStatusReturn

StatusSpec == Init /\ [][StatusNext]_vars

\* processItem: updateDestination(stats) has been applied and notifySuccess
\* throws; the call stands in the try block, so the catch clause hands the
\* error to handleError
NotifySuccessThrows(r, rd) ==
  /\ r.pc = "updateDestination"
  /\ faults < MaxFaults
  /\ faults' = faults + 1
  /\ destinations' = UpdateDestination(destinations, r.destinationId,
                       [totalPublished |-> r.destStats + 1])
  /\ Step(r, handleError(r, NotifyError, rd))
  /\ UNCHANGED <<queue, posts, nextId, maxConcurrent, isPaused, retryOp, manualRetries,
                 clockVars, histVars, backgroundSync, retryAllOp, delayCall, answer,
                 statusOp, restarts>>

\* The queue with a notification sink that can fail once.
NotifyNext ==
  \/ \E p \in PostIds, d \in DestIds, pr \in EnqueuePriorities : Enqueue(p, d, pr)
  \/ PassRead
  \/ \E j \in JobIds : RunStepOf(j)
  \/ \E r \in runs, rd \in RandomDraws : NotifySuccessThrows(r, rd)
  \/ Tick

NotifySpec == Init /\ [][NotifyNext]_vars

\* ConflictResolver.isDuplicateEnqueue(postId, destinationId): getPendingItems
\* has answered and the result is returned
IsDuplicateEnqueueCall(postId, destinationId) ==
  /\ answer' = [op |-> "isDuplicateEnqueue", postId |-> postId,
                destinationId |-> destinationId,
                result |-> isDuplicateEnqueue(queue, now, postId, destinationId)]
  /\ UNCHANGED <<storeVars, processing, maxConcurrent, isPaused, isProcessing, passes, runs,
                 retryOp, manualRetries, clockVars, histVars, guarded,
                 backgroundSync, retryAllOp, delayCall, restarts, faults, statusOp>>

\* The queue at work while the duplicate guard is asked.
DuplicateNext ==
  \/ \E p \in PostIds, d \in DestIds, pr \in EnqueuePriorities : Enqueue(p, d, pr)
  \/ PassRead
  \/ \E j \in JobIds : RunStepOf(j)
  \/ Tick
  \/ \E p \in PostIds, d \in DestIds : IsDuplicateEnqueueCall(p, d)

DuplicateSpec == Init /\ [][DuplicateNext]_vars

\* The queue with its two manual retry operations, which the user can call
\* at any moment and while the other one is in progress.
RetryNext ==
  \/ \E p \in PostIds, d \in DestIds, pr \in EnqueuePriorities : Enqueue(p, d, pr)
  \/ PassRead
  \/ \E r \in runs : MarkProcessing(r)
  \/ \E r \in runs : GetPost(r)
  \/ \E r \in runs, rd \in RandomDraws : GetDestination(r, rd)
  \/ \E r \in runs, res \in PublishResults, rd \in RandomDraws : Publish(r, res, rd)
  \/ \E r \in runs : UpdatePostPublished(r)
  \/ \E r \in runs : UpdateCompleted(r)
  \/ \E r \in runs : UpdateDestinationStats(r)
  \/ \E r \in runs : WriteFailed(r)
  \/ \E r \in runs : UpdatePostFailed(r)
  \/ \E r \in runs : WriteRetry(r)
  \/ \E j \in JobIds : RetryItemRead(j)
  \/ RetryItemWrite
  \/ RetryItemPost
  \/ RetryAllRead
  \/ RetryAllWrite
  \/ RetryAllPost
  \/ Tick

RetrySpec == Init /\ [][RetryNext]_vars

\* the awaited calls of processItem's try block that go to the job store
TryStoreCalls ==
  {"markProcessing", "getPost", "getDestination", "updatePost", "updateCompleted",
   "updateDestination"}

\* the store writes of handleError
HandlerStoreCalls == {"writeFailed", "updatePostFailed", "writeRetry"}

\* processItem: the store call the execution waits for rejects; nothing is
\* stored, and the catch clause passes the error to handleError
StoreCallThrows(r, rd) ==
  /\ r.pc \in TryStoreCalls
  /\ faults < MaxFaults
  /\ faults' = faults + 1
  /\ Step(r, handleError(r, "storeError", rd))
  /\ UNCHANGED <<storeVars, maxConcurrent, isPaused, retryOp, manualRetries,
                 clockVars, histVars, backgroundSync, retryAllOp, delayCall, answer, statusOp, restarts>>

\* mutant of HandlerCallThrows: the callback of processQueue is skipped when
\* processItem rejects, as a .then callback would be
HandlerCallThrowsNoFinally(r) ==
  /\ r.pc \in HandlerStoreCalls
  /\ faults < MaxFaults
  /\ faults' = faults + 1
  /\ runs' = runs \ {r}
  /\ UNCHANGED <<storeVars, processing, isProcessing, passes, guarded, maxConcurrent, isPaused,
                 retryOp, manualRetries, clockVars, histVars, backgroundSync,
                 retryAllOp, delayCall, answer, statusOp, restarts>>

\* handleError: the store write it waits for rejects; nothing is stored,
\* processItem rejects and the .finally callback of processQueue runs
HandlerCallThrows(r) ==
  /\ r.pc \in HandlerStoreCalls
  /\ faults < MaxFaults
  /\ faults' = faults + 1
  /\ Release(r)
  /\ UNCHANGED <<storeVars, maxConcurrent, isPaused, retryOp, manualRetries,
                 clockVars, histVars, backgroundSync, retryAllOp, delayCall, answer, statusOp, restarts>>

\* processQueue: getPendingItems rejects; the finally clause clears the
\* guard and the promise of the call, which no caller awaits, rejects
PassReadThrows ==
  /\ passes > 0
  /\ faults < MaxFaults
  /\ faults' = faults + 1
  /\ PassEnds
  /\ UNCHANGED <<storeVars, processing, runs, maxConcurrent, isPaused, retryOp,
                 manualRetries, clockVars, histVars, guarded, backgroundSync,
                 retryAllOp, delayCall, answer, statusOp, restarts>>

\* The scheduling pass and everything that calls processQueue: enqueue,
\* resume, retryItem and the slot releases, with a read of the pass that can
\* fail once.
PassNext ==
  \/ \E p \in PostIds, d \in DestIds, pr \in EnqueuePriorities : Enqueue(p, d, pr)
  \/ PassRead
  \/ PassReadThrows
  \/ \E j \in JobIds : RunStepOf(j)
  \/ \E j \in JobIds : RetryItemRead(j)
  \/ RetryItemWrite
  \/ RetryItemPost
  \/ Pause
  \/ Resume
  \/ Tick

PassSpec == Init /\ [][PassNext]_vars

\* The queue on a job store whose calls can fail.
FaultNext ==
  \/ \E p \in PostIds, d \in DestIds, pr \in EnqueuePriorities : Enqueue(p, d, pr)
  \/ PassRead
  \/ \E r \in runs : MarkProcessing(r)
  \/ \E r \in runs : GetPost(r)
  \/ \E r \in runs, rd \in RandomDraws : GetDestination(r, rd)
  \/ \E r \in runs, res \in PublishResults, rd \in RandomDraws : Publish(r, res, rd)
  \/ \E r \in runs : UpdatePostPublished(r)
  \/ \E r \in runs : UpdateCompleted(r)
  \/ \E r \in runs : UpdateDestinationStats(r)
  \/ \E r \in runs : WriteFailed(r)
  \/ \E r \in runs : UpdatePostFailed(r)
  \/ \E r \in runs : WriteRetry(r)
  \/ \E r \in runs, rd \in RandomDraws : StoreCallThrows(r, rd)
  \/ \E r \in runs : HandlerCallThrows(r)
  \/ Pause
  \/ Resume
  \/ Tick

FaultSpec == Init /\ [][FaultNext]_vars

\* handlePeriodicSync, resumed with the settings: the alarm resumes the
\* queue when background sync is on
PeriodicSync ==
  IF backgroundSync THEN Resume ELSE UNCHANGED vars

\* initialize() in a new process of the service worker: the job store is
\* what the old process left, the queue manager is newly constructed and
\* resume() is called
Restart ==
  /\ restarts < MaxRestarts
  /\ restarts' = restarts + 1
  /\ processing' = {}
  /\ runs' = {}
  /\ retryOp' = IdleRetry
  /\ retryAllOp' = IdleRetryAll
  /\ guarded' = {}
  /\ isPaused' = FALSE
  /\ Called(processQueue(FALSE, FALSE, 0, {}, maxConcurrent))
  /\ UNCHANGED <<storeVars, maxConcurrent, manualRetries, clockVars, histVars,
                 backgroundSync, delayCall, answer, statusOp, faults>>

\* The queue in its host: the periodic-sync alarm keeps firing, the process
\* can be replaced at any moment, and the user chose the background-sync
\* setting.  Store and publisher calls are answered.
HostInit == Constructed /\ backgroundSync \in BOOLEAN

HostNext ==
  \/ \E p \in PostIds, d \in DestIds, pr \in EnqueuePriorities : Enqueue(p, d, pr)
  \/ PassRead
  \/ \E j \in JobIds : RunStepOf(j)
  \/ Pause
  \/ PeriodicSync
  \/ Restart
  \/ Tick

HostSpec ==
  /\ HostInit
  /\ [][HostNext]_vars
  /\ WF_vars(PassRead)
  /\ \A j \in JobIds : WF_vars(RunStepOf(j))
  /\ WF_vars(PeriodicSync)

\* ------------------------------------------------------------- claims
StoredWithStatus(st) == {j \in DOMAIN queue : queue[j].status = st}

JobsOfPair(p, d) ==
  {j \in DOMAIN queue : queue[j].postId = p /\ queue[j].destinationId = d}

\* C1: the number of jobs whose stored status is `processing` never exceeds
\* maxConcurrent.
C1_ProcessingBound == Cardinality(StoredWithStatus("processing")) <= maxConcurrent

\* a pass has filled every slot and left an eligible job waiting
C1_Witness ==
  /\ Cardinality(StoredWithStatus("processing")) = maxConcurrent
  /\ EligiblePending(queue, now) # {}
  /\ ~isProcessing
  /\ ~isPaused

\* C2: at most one publish call per (content item, destination) pair
\* returns success.
C2_AtMostOneSuccess == \A pd \in PostIds \X DestIds : okCount[pd] <= 1

\* C3: at most one job per (postId, destinationId) pair is `pending` or
\* `processing` at any time.
C3_NoDuplicateAdmission ==
  \A p \in PostIds, d \in DestIds :
    Cardinality(JobsOfPair(p, d) \cap
                (StoredWithStatus("pending") \cup StoredWithStatus("processing"))) <= 1

\* C4: while the queue is not paused, a job that is `pending` with no
\* scheduledFor is eventually dispatched, also when the processQueue call
\* of its enqueue found a pass in progress.
C4_PendingIsDispatched ==
  \A j \in JobIds :
    (j \in DOMAIN queue /\ queue[j].status = "pending"
       /\ queue[j].scheduledFor = Unset /\ ~isPaused)
      ~> (isPaused \/ j \in processing)

\* a job whose enqueue was turned away by the re-entrancy guard is in flight
C4_Witness ==
  \E j \in guarded : j \in processing /\ queue[j].status = "processing"

\* C5: every job has retryCount <= maxRetries, and no job is `pending` with
\* retryCount = maxRetries.
C5_RetryBudget ==
  \A j \in DOMAIN queue :
    /\ queue[j].retryCount <= queue[j].maxRetries
    /\ queue[j].status = "pending" => queue[j].retryCount < queue[j].maxRetries

\* a job whose last allowed failure has been handled
C5_Witness ==
  \E j \in DOMAIN queue :
    /\ queue[j].status = "failed"
    /\ queue[j].retryCount = queue[j].maxRetries
    /\ fails[j] = queue[j].maxRetries

Running(j) == \E r \in runs : r.id = j

\* C6 as stated: after three failed publish calls the job is still to get
\* its fourth call, so it is not `failed`.
C6_FourthCallIsMade ==
  \A j \in DOMAIN queue :
    (calls[j] = 3 /\ fails[j] = 3) => queue[j].status # "failed"

\* C6 as amended: the third failed publish call is the last one.  No job
\* gets a fourth publish call, a job whose three calls have failed is
\* `failed` with retryCount = 3 once its execution has ended, and that
\* execution ends by marking the content item `failed`.
C6_ThirdFailureIsFinal ==
  /\ [](\A j \in DOMAIN queue :
          /\ calls[j] <= queue[j].maxRetries
          /\ (fails[j] = 3 /\ ~Running(j)) =>
               (queue[j].status = "failed" /\ queue[j].retryCount = 3))
  /\ [][\A r \in runs :
          (fails[r.id] = 3 /\ (\A r2 \in runs' : r2.id # r.id)
             /\ r.postId \in DOMAIN posts')
            => posts'[r.postId].status = "failed"]_vars

\* three failed calls, the job failed and its content item failed
C6_Witness ==
  \E j \in DOMAIN queue :
    /\ calls[j] = 3 /\ fails[j] = 3 /\ ~Running(j)
    /\ queue[j].status = "failed"
    /\ queue[j].lastError = "http500"
    /\ queue[j].postId \in DOMAIN posts
    /\ posts[queue[j].postId].status = "failed"

\* the classification of RetryStrategy.shouldRetry, the budget left aside
NonRetryable(e) == ~shouldRetry(0, e)

\* C7: a job whose publish attempt failed with a non-retryable error is
\* never put back to `pending` by the retry branch.
C7_NonRetryableNeverPending ==
  \A j \in DOMAIN queue :
    (queue[j].lastError # None /\ NonRetryable(queue[j].lastError))
      => queue[j].status # "pending"

\* C8: a job that found its content item or destination missing is never
\* rescheduled as `pending`.
C8_MissingEntityNeverPending ==
  \A j \in DOMAIN queue :
    queue[j].lastError \in {"postNotFound", "destNotFound"}
      => queue[j].status # "pending"

\* C9: under policy `skip`, an execution dispatched while its content item
\* was already published to its destination with a remote id makes no
\* publish call.
C9_ConflictSkipsPublish ==
  \A r \in runs : (defaultStrategy = "skip" /\ r.conflict) => r.pc # "publish"

\* C10: while the queue is paused no job is added to the in-flight set.
C10_NoDispatchWhilePaused ==
  [][(isPaused /\ isPaused') => processing' \subseteq processing]_vars

\* C11: a job put back to `pending` by the retry branch is dispatched again
\* once its scheduledFor has elapsed, unless the queue is paused.
C11_RetryIsDispatched ==
  \A j \in JobIds :
    (j \in DOMAIN queue /\ queue[j].status = "pending"
       /\ queue[j].scheduledFor # Unset /\ queue[j].scheduledFor <= now /\ ~isPaused)
      ~> (isPaused \/ j \in processing)

\* C12: a job that is stored as `processing` with no execution running,
\* as a restart leaves it, eventually leaves `processing`.
C12_ProcessingIsRecovered ==
  \A j \in JobIds :
    (j \in DOMAIN queue /\ queue[j].status = "processing" /\ ~Running(j))
      ~> (j \in DOMAIN queue /\ queue[j].status # "processing")

AllowedStatusChanges ==
  {<<"pending", "processing">>, <<"processing", "completed">>,
   <<"processing", "pending">>, <<"processing", "failed">>,
   <<"pending", "cancelled">>, <<"failed", "pending">>}

\* C13: the stored status of a job changes only along the edges of the job
\* life cycle; a `completed` job keeps its status, also when a store write
\* that follows the `completed` write fails.
C13_StatusLifeCycle ==
  [][\A j \in DOMAIN queue \cap DOMAIN queue' :
       queue[j].status # queue'[j].status
         => <<queue[j].status, queue'[j].status>> \in AllowedStatusChanges]_vars

\* C14: retryItem on a job that is missing or not `failed` ends with its
\* read and writes nothing; on a `failed` job its first write resets the job
\* (pending, retryCount 0, no lastError, no scheduledFor) and its second
\* write sets the linked content item to `pending`.
C14_RetryItemContract ==
  [][/\ (manualRetries' # manualRetries) =>
          /\ UNCHANGED storeVars
          /\ retryOp'.pc = "idle" =>
               \E j \in JobIds : j \notin DOMAIN queue \/ queue[j].status # "failed"
          /\ retryOp'.pc # "idle" =>
               /\ retryOp'.pc = "updateItem"
               /\ retryOp'.itemId \in DOMAIN queue
               /\ queue[retryOp'.itemId].status = "failed"
               /\ retryOp'.postId = queue[retryOp'.itemId].postId
     /\ (retryOp.pc = "updateItem" /\ retryOp'.pc # "updateItem" /\ restarts' = restarts) =>
          /\ retryOp'.pc = "updatePost"
          /\ retryOp.itemId \in DOMAIN queue =>
               /\ queue'[retryOp.itemId].status = "pending"
               /\ queue'[retryOp.itemId].retryCount = 0
               /\ queue'[retryOp.itemId].lastError = None
               /\ queue'[retryOp.itemId].scheduledFor = Unset
          /\ \A j \in DOMAIN queue \ {retryOp.itemId} : queue'[j] = queue[j]
          /\ posts' = posts
     /\ (retryOp.pc = "updatePost" /\ retryOp'.pc # "updatePost" /\ restarts' = restarts) =>
          /\ retryOp'.pc = "idle"
          /\ retryOp.postId \in DOMAIN posts =>
               /\ posts'[retryOp.postId].status = "pending"
               /\ posts'[retryOp.postId].error = None
          /\ queue' = queue]_vars

\* retryItem has reset a failed job and is about to reset its content item
C14_Witness ==
  /\ retryOp.pc = "updatePost"
  /\ retryOp.itemId \in DOMAIN queue
  /\ queue[retryOp.itemId].status = "pending"
  /\ queue[retryOp.itemId].retryCount = 0
  /\ queue[retryOp.itemId].lastError = None
  /\ posts[retryOp.postId].status = "failed"

\* C15: retryAllFailed returns the number of jobs that were `failed` when it
\* read the store, every job it writes leaves `failed` for `pending` with
\* retryCount 0, and no job in another status is modified by it.
C15_RetryAllContract ==
  [][/\ (retryAllOp.pc # "idle" /\ retryAllOp'.pc = "idle" /\ restarts' = restarts) =>
          retryAllOp'.returned = Len(retryAllOp.failedItems)
     /\ (retryAllOp.pc = "idle" /\ retryAllOp'.calls # retryAllOp.calls) =>
          /\ UNCHANGED storeVars
          /\ Len(retryAllOp'.failedItems) + (IF retryAllOp'.pc = "idle" THEN retryAllOp'.returned ELSE 0)
               = Cardinality(StoredWithStatus("failed"))
     /\ (retryAllOp.pc = "updateItem" /\ retryAllOp'.pc = "updatePost") =>
          \A j \in DOMAIN queue :
            IF j = retryAllOp.failedItems[retryAllOp.i].id
            THEN /\ queue[j].status = "failed"
                 /\ queue'[j].status = "pending"
                 /\ queue'[j].retryCount = 0
            ELSE queue'[j] = queue[j]]_vars

\* C16: a job that is dispatched has the highest priority of the `pending`
\* jobs eligible at that moment, and the earliest createdAt among those of
\* its priority.
C16_DispatchOrder ==
  [][\A j \in processing' \ processing : \A k \in EligiblePending(queue, now) :
       \/ queue[j].priority > queue[k].priority
       \/ (queue[j].priority = queue[k].priority
             /\ queue[j].createdAt <= queue[k].createdAt)]_vars

\* C17: no step removes a job from the store while the job is stored as
\* `processing`.
C17_ProcessingNeverDeleted ==
  [][\A j \in DOMAIN queue :
       queue[j].status = "processing" => j \in DOMAIN queue']_vars

\* C18: when the handling of a final failure ends, the job is `failed` with
\* the message of the last failed attempt and its content item is `failed`
\* with the same message, also when retryItem ran in between.
C18_FinalFailureRecorded ==
  [][\A r \in runs :
       (r.pc = "updatePostFailed" /\ (\A r2 \in runs' : r2.id # r.id)
          /\ restarts' = restarts /\ r.id \in DOMAIN queue' /\ r.postId \in DOMAIN posts')
         => /\ queue'[r.id].status = "failed"
            /\ queue'[r.id].lastError = r.error
            /\ posts'[r.postId].status = "failed"
            /\ posts'[r.postId].error = r.error]_vars

\* C20: the delay getDelay returns lies in [0, maxDelay], for every attempt
\* number and every jitter draw.
C20_DelayWithinMax ==
  delayCall # NoDelayCall => (0 <= delayCall.delay /\ delayCall.delay <= MaxDelay)

\* C19: an error inside one execution, a failing store write of its failure
\* handling included, does not stop the scheduler.  Whenever an execution
\* ends its job is out of the in-flight set and, unless the queue is paused,
\* a pass is in progress; the slots are held by the running executions and
\* no others; and a step of one execution changes neither the status nor
\* the retryCount of any other job.
C19_ErrorsStayInTheirJob ==
  /\ [](processing = {r.id : r \in runs})
  /\ [][\A r \in runs :
          /\ (\A r2 \in runs' : r2.id # r.id) =>
               /\ r.id \notin processing'
               /\ ~isPaused => isProcessing'
          /\ r \notin runs' =>
               \A j \in DOMAIN queue \ {r.id} :
                 /\ j \in DOMAIN queue'
                 /\ queue'[j].status = queue[j].status
                 /\ queue'[j].retryCount = queue[j].retryCount]_vars

\* the failure handling of one job has itself failed: the job is left as
\* `processing` with no execution and no slot, and a pass is looking at
\* another job that is pending
C19_Witness ==
  \E j \in DOMAIN queue, k \in DOMAIN queue :
    /\ faults = 1
    /\ queue[j].status = "processing" /\ ~Running(j) /\ j \notin processing
    /\ k # j /\ queue[k].status = "pending" /\ queue[k].retryCount = 0
    /\ isProcessing

\* the HTTP status an error carries, 0 if it carries none
HttpStatus(e) ==
  CASE e = "http500" -> 500
    [] e = "http404" -> 404
    [] e = "http401" -> 401
    [] e = "http403" -> 403
    [] e = "http422" -> 422
    [] OTHER -> 0

\* an authentication, authorization, validation or not-found error, or one
\* with HTTP status 401, 403, 404 or 422
NonRetryableKind(e) ==
  ErrorName(e) \in NonRetryableErrors \/ HttpStatus(e) \in {401, 403, 404, 422}

\* C21: shouldRetry answers false exactly when the attempt number has
\* reached maxRetries or the error is of a non-retryable kind, and true for
\* every other error below the budget.
C21_ShouldRetryClassifies ==
  answer.op = "shouldRetry" =>
    (answer.result = FALSE <=>
       (answer.attemptNumber >= ConfigMaxRetries \/ NonRetryableKind(answer.error)))

\* C22: getStatus reports progress = completed / total * 100 with total
\* the number of jobs in the store (jobs are only added here, so a number
\* the store held between the call and the return), progress = 0 when
\* total = 0, and 0 <= progress <= 100.
C22_ProgressOfStore ==
  answer.op = "getStatus" =>
    /\ answer.jobsAtCall <= answer.total
    /\ answer.total <= Cardinality(DOMAIN queue)
    /\ answer.total = 0 => answer.progress = 0
    /\ answer.total > 0 => answer.progress * answer.total = answer.completed * 100
    /\ 0 <= answer.progress /\ answer.progress <= 100

\* C23: enqueue with a post id or destination id that references no
\* stored entity is rejected: every job that is added to the store names a
\* stored post and a stored destination.
C23_EnqueueValidatesReferences ==
  [][\A j \in DOMAIN queue' \ DOMAIN queue :
        /\ queue'[j].postId \in DOMAIN posts
        /\ queue'[j].destinationId \in DOMAIN destinations]_vars

\* C24: a failing success notification does not change the outcome of a
\* job: once its publish call has returned success the job is processing or
\* completed, its retryCount is the number of its failed publish calls, and
\* the publisher is not called for it again.
C24_NotificationFailureHarmless ==
  \A j \in DOMAIN queue :
    calls[j] > fails[j] =>
      /\ queue[j].status \in {"processing", "completed"}
      /\ queue[j].retryCount = fails[j]
      /\ calls[j] = fails[j] + 1

\* the successful publish calls to the destination d, counted up to two
\* (PostIds holds one post)
PublishedTo(d) ==
  LET p == CHOOSE p \in PostIds : TRUE IN okCount[<<p, d>>]

\* C25: when no execution is in flight, totalPublished of a destination is
\* the number of publish calls to it that returned success (the history
\* counts up to two, so two stands for two or more), also when several jobs
\* for the destination were in flight together.
C25_TotalPublishedCountsSuccesses ==
  \A d \in DOMAIN destinations :
    runs = {} =>
      IF PublishedTo(d) < 2
      THEN destinations[d].totalPublished = PublishedTo(d)
      ELSE destinations[d].totalPublished >= 2

\* C26: isDuplicateEnqueue(postId, destinationId) returns true if and only
\* if the store holds a pending or processing job for the pair, whatever
\* the scheduledFor of that job.
C26_DuplicateIffActiveJob ==
  [][(answer' # answer /\ answer'.op = "isDuplicateEnqueue") =>
       (answer'.result <=>
          \E j \in DOMAIN queue :
            /\ queue[j].postId = answer'.postId
            /\ queue[j].destinationId = answer'.destinationId
            /\ queue[j].status \in {"pending", "processing"})]_vars

\* C27: at most one scheduling pass is active at any time, whichever of
\* enqueue, resume, retryItem and the slot releases call processQueue, and
\* the guard isProcessing is set exactly while a pass is active, so it is
\* cleared when the pass ends, also when its store read throws.
C27_SinglePass == passes <= 1 /\ (isProcessing <=> passes = 1)

\* a read of a pass has thrown, and a later pass is suspended on its read
\* while a job is in flight and a second job waits
C27_Witness ==
  /\ faults = 1
  /\ passes = 1
  /\ processing # {}
  /\ \E j \in DOMAIN queue : j \notin processing /\ queue[j].status = "pending"

\* C28: a pending job whose scheduledFor lies in the future is never
\* dispatched: every job that is given an execution slot is pending, with
\* scheduledFor unset or not later than the current time, when it is
\* selected.
C28_FutureJobsWait ==
  [][\A j \in processing' \ processing :
        /\ queue[j].status = "pending"
        /\ (queue[j].scheduledFor = Unset \/ queue[j].scheduledFor <= now)]_vars

\* a job that was rescheduled by a failed attempt has been dispatched again
\* after its scheduledFor passed, while the other job still waits for its
\* own scheduledFor
C28_Witness ==
  \E j \in processing \cap DOMAIN queue, k \in DOMAIN queue :
    /\ queue[j].scheduledFor # Unset
    /\ queue[j].retryCount > 0
    /\ queue[j].status = "processing"
    /\ k # j
    /\ queue[k].status = "pending"
    /\ queue[k].scheduledFor # Unset
    /\ queue[k].scheduledFor > now

\* C29: no job is executed by two overlapping executions: at any time at
\* most one processItem run is in progress for a job id, also when retryItem
\* or retryAllFailed has put the job back to pending before its previous
\* execution released its slot.
C29_OneExecutionPerJob ==
  \A r1 \in runs, r2 \in runs : r1.id = r2.id => r1 = r2

\* a manual retry has put a job back to pending while the execution that
\* failed it has not yet released its slot, and a pass is about to select it
C29_Witness ==
  \E r \in runs :
    /\ r.pc = "updatePostFailed"
    /\ r.id \in DOMAIN queue
    /\ queue[r.id].status = "pending"
    /\ passes = 1

\* C30: once paused, the queue stays paused until resume is requested: no
\* background event clears the pause flag.  HostSpec holds no resume
\* request, so within one process of the service worker every step leaves
\* a paused queue paused.
C30_PauseHolds ==
  [][(isPaused /\ restarts' = restarts) => isPaused']_vars

====
